---- MODULE Spec2Model ----
(***************************************************************************)
(* Model of the stock quote programs: CMPE285_HW2.py (fetch_quote, its     *)
(* helpers, render_quote and the command line loop) and stock_app.py (the  *)
(* Streamlit page).                                                        *)
(*                                                                         *)
(* Text is a sequence of one-character or literal strings.  Prices are     *)
(* fixed-point numbers in units of 1/10000; a float that round(x, 2) has   *)
(* produced is kept as sign and magnitude in hundredths, so that -0.0 and  *)
(* 0.0 are different values, as they are in Python.                        *)
(***************************************************************************)
EXTENDS Integers, Sequences, FiniteSets, TLC

VARIABLES prog, pc, stdin, out, shown, call

vars == <<prog, pc, stdin, out, shown, call>>

\* Longest standard input, in lines.
MaxLines == 2
\* Most rows a history frame holds.
MaxRows == 3

----------------------------------------------------------------------------
(* Text helpers: str.strip, str.upper                                      *)

IsSpace(c) == c \in {" ", "\n", "\t"}

RECURSIVE LStrip(_)
LStrip(s) == IF s = <<>> THEN <<>>
             ELSE IF IsSpace(Head(s)) THEN LStrip(Tail(s)) ELSE s

RECURSIVE RStrip(_)
RStrip(s) == IF s = <<>> THEN <<>>
             ELSE IF IsSpace(s[Len(s)]) THEN RStrip(SubSeq(s, 1, Len(s) - 1)) ELSE s

Strip(s) == RStrip(LStrip(s))

UpperChar(c) == CASE c = "a" -> "A"
                  [] c = "b" -> "B"
                  [] OTHER -> c

Upper(s) == [i \in 1..Len(s) |-> UpperChar(s[i])]

----------------------------------------------------------------------------
(* Numbers                                                                 *)

\* A cell of the history frame: a number (units of 1/10000), NaN, or an
\* object float() cannot convert.
Num(n) == [t |-> "num", v |-> n]
NaN == [t |-> "nan", v |-> 0]
Str == [t |-> "str", v |-> 0]

Abs(n) == IF n < 0 THEN -n ELSE n

\* A float with at most 2 decimals: sign bit and magnitude in hundredths.
FNaN == [nan |-> TRUE, neg |-> FALSE, mag |-> 0]
FZero == [nan |-> FALSE, neg |-> FALSE, mag |-> 0]

\* round(x, 2) of the float nearest to (-1)^neg * a / d hundredths.  The
\* nearest hundredth is taken; at a decimal tie the binary value of the float
\* decides, which the argument up stands for.  The sign bit is kept.
RoundRatio(neg, a, d, up) ==
    LET q == a \div d
        r == a % d
    IN  [nan |-> FALSE, neg |-> neg,
         mag |-> IF 2 * r > d \/ (2 * r = d /\ up) THEN q + 1 ELSE q]

\* A variant of Round2: the digits after the second are cut off.
Round2Down(x, up) ==
    IF x.t = "nan" THEN FNaN
    ELSE [nan |-> FALSE, neg |-> x.v < 0, mag |-> Abs(x.v) \div 100]

\* round(x, 2) of a value x in units of 1/10000.
Round2(x, up) ==
    IF x.t = "nan" THEN FNaN ELSE RoundRatio(x.v < 0, Abs(x.v), 100, up)

\* last_price - prev_close
Minus(x, y) ==
    IF x.t = "nan" \/ y.t = "nan" THEN NaN ELSE Num(x.v - y.v)

----------------------------------------------------------------------------
(* Results of calls that may raise                                         *)

Ok(v) == [ok |-> TRUE, val |-> v, type |-> "", msg |-> <<>>]
Raise(type, msg) == [ok |-> FALSE, val |-> <<>>, type |-> type, msg |-> msg]

----------------------------------------------------------------------------
(* Helpers of fetch_quote                                                  *)

\* info.get("longName") or info.get("shortName") or symbol.upper(), with
\* whatever ticker.get_info() raises.  An absent or empty name is <<>>.
get_info_name(info, symbol) ==
    IF info.raises THEN Raise("Exception", <<info.err>>)
    ELSE Ok(IF info.longName # <<>> THEN info.longName
            ELSE IF info.shortName # <<>> THEN info.shortName
            ELSE Upper(symbol))

\* A variant of get_name_safe: no except clause.
get_name_unsafe(info, symbol) == get_info_name(info, symbol)

get_name_safe(info, symbol) ==
    LET body == get_info_name(info, symbol)
    IN  IF body.ok THEN body ELSE Ok(Upper(symbol))

\* hist.dropna(how="all"): a row goes when every one of its cells is NaN.
RowNotEmpty(r) == \E c \in DOMAIN r : r[c].t # "nan"

\* A variant of dropna: how="any".
dropna_any(rows) ==
    LET Full(r) == \A c \in DOMAIN r : r[c].t # "nan" IN SelectSeq(rows, Full)

dropna(rows) == SelectSeq(rows, RowNotEmpty)

\* float(hist[col].iloc[i])
Cell(columns, rows, col, i) ==
    IF col \notin columns THEN Raise("KeyError", <<"'", col, "'">>)
    ELSE IF rows[i][col].t = "str"
         THEN Raise("ValueError", <<"could not convert string to float: 'abc'">>)
         ELSE Ok(rows[i][col])

\* iloc[-2]
prev_row(n) == n - 1

\* The try block of _get_prices_safe.
prices_body(hist) ==
    IF hist.raises THEN Raise("Exception", <<hist.err>>)
    ELSE
      LET rows == dropna(hist.rows)
          n == Len(rows)
      IN  IF n = 0 \/ "Close" \notin hist.columns
          THEN Raise("QuoteError", <<"No valid price data found.">>)
          ELSE
            LET last_price == Cell(hist.columns, rows, "Close", n)
                prev_close == IF n >= 2
                              THEN Cell(hist.columns, rows, "Close", prev_row(n))
                              ELSE Cell(hist.columns, rows, "Open", n)
            IN  IF ~last_price.ok THEN last_price
                ELSE IF ~prev_close.ok THEN prev_close
                ELSE Ok([last_price |-> last_price.val, prev_close |-> prev_close.val])

\* A variant of get_prices_safe: the cause is left out of the message.
get_prices_nocause(hist) ==
    LET body == prices_body(hist)
    IN  IF body.ok THEN body
        ELSE Raise("QuoteError", <<"No valid price data found.">>)

\* except Exception as e: raise QuoteError(f"No valid price data found. ({e})")
get_prices_safe(hist) ==
    LET body == prices_body(hist)
    IN  IF body.ok THEN body
        ELSE Raise("QuoteError",
                   <<"No valid price data found. (">> \o body.msg \o <<")">>)

\* change / prev_close * 100, in hundredths of a percent, as a ratio a / d.
DivTimes100(change, prev_close) ==
    IF prev_close.t = "num" /\ prev_close.v = 0
    THEN Raise("ZeroDivisionError", <<"float division by zero">>)
    ELSE IF change.t = "nan" \/ prev_close.t = "nan"
         THEN Ok([t |-> "nan", neg |-> FALSE, a |-> 0, d |-> 1])
         ELSE Ok([t |-> "num", neg |-> (change.v < 0) # (prev_close.v < 0),
                  a |-> Abs(change.v) * 10000, d |-> Abs(prev_close.v)])

\* A variant of percent_of: no test of prev_close.
percent_unguarded(change, prev_close) == DivTimes100(change, prev_close)

\* (change / prev_close * 100) if prev_close != 0 else 0
percent_of(change, prev_close) ==
    IF ~(prev_close.t = "num" /\ prev_close.v = 0)
    THEN DivTimes100(change, prev_close)
    ELSE Ok([t |-> "num", neg |-> FALSE, a |-> 0, d |-> 1])

RoundPercent(p, up) ==
    IF p.t = "nan" THEN FNaN ELSE RoundRatio(p.neg, p.a, p.d, up)

----------------------------------------------------------------------------
(* fetch_quote                                                             *)

NoQuote == [symbol |-> <<>>, company |-> <<>>,
            price |-> FNaN, change |-> FNaN, percent |-> FNaN]

\* What a call of fetch_quote gives: kind is "Quote" or the type of the
\* exception raised; calls lists the backend operations it performed.
Returned(q, calls) == [kind |-> "Quote", msg |-> <<>>, quote |-> q, calls |-> calls]
Raised(type, msg, calls) == [kind |-> type, msg |-> msg, quote |-> NoQuote, calls |-> calls]

\* A variant of is_blank: only the empty string counts.
is_blank_nostrip(symbol) == symbol = <<>>

\* not symbol or not symbol.strip()
is_blank(symbol) == symbol = <<>> \/ Strip(symbol) = <<>>

\* The backend answers: be.ticker for yf.Ticker(symbol), be.info for
\* ticker.get_info(), be.hist for ticker.history(...).  fp holds, for each of
\* the three round() calls, the way a decimal tie falls.
fetch_quote(symbol0, be, fp) ==
    IF is_blank(symbol0)
    THEN Raised("QuoteError", <<"Stock symbol cannot be empty.">>, <<>>)
    ELSE
      LET symbol == Upper(Strip(symbol0))
          Wrapped(e) == <<"Error retrieving data for ">> \o symbol \o <<": ">> \o e
      IN
      IF be.ticker.raises
      THEN Raised("QuoteError", Wrapped(<<be.ticker.err>>), <<"Ticker">>)
      ELSE
        LET company_name == get_name_safe(be.info, symbol)
        IN
        IF ~company_name.ok
        THEN Raised("QuoteError", Wrapped(company_name.msg), <<"Ticker", "get_info">>)
        ELSE
          LET prices == get_prices_safe(be.hist)
              calls == <<"Ticker", "get_info", "history">>
          IN
          IF ~prices.ok
          THEN IF prices.type = "QuoteError"
               THEN Raised("QuoteError", prices.msg, calls)
               ELSE Raised("QuoteError", Wrapped(prices.msg), calls)
          ELSE
            LET last_price == prices.val.last_price
                prev_close == prices.val.prev_close
                change == Minus(last_price, prev_close)
                percent == percent_of(change, prev_close)
            IN
            IF ~percent.ok
            THEN Raised(percent.type, percent.msg, calls)
            ELSE Returned([symbol |-> symbol,
                           company |-> company_name.val \o <<" ", "(">> \o symbol \o <<")">>,
                           price |-> Round2(last_price, fp.price),
                           change |-> Round2(change, fp.change),
                           percent |-> RoundPercent(percent.val, fp.percent)],
                          calls)

----------------------------------------------------------------------------
(* Formatting                                                              *)

Digits == <<"0", "1", "2", "3", "4", "5", "6", "7", "8", "9">>

RECURSIVE IntText(_)
IntText(n) == IF n < 10 THEN <<Digits[n + 1]>>
              ELSE IntText(n \div 10) \o <<Digits[(n % 10) + 1]>>

\* The digits of f"{x:.2f}" without its sign.
Fixed2(f) ==
    IF f.nan THEN <<"n", "a", "n">>
    ELSE IntText(f.mag \div 100) \o <<".", Digits[((f.mag \div 10) % 10) + 1],
                                       Digits[(f.mag % 10) + 1]>>

\* f"{x:.2f}": a minus sign when the sign bit is set
Format2f(f) == IF f.neg /\ ~f.nan THEN <<"-">> \o Fixed2(f) ELSE Fixed2(f)

\* f"{x:+.2f}": always a sign, taken from the sign bit
FormatPlus2f(f) == (IF f.neg /\ ~f.nan THEN <<"-">> ELSE <<"+">>) \o Fixed2(f)

\* abs(x)
FAbs(f) == [f EXCEPT !.neg = FALSE]

\* x > 0 and x < 0 on floats: false for NaN and for both zeros
FPos(f) == ~f.nan /\ ~f.neg /\ f.mag > 0
FNeg(f) == ~f.nan /\ f.neg /\ f.mag > 0

\* A variant of SignText: "+" whenever the value is not negative.
SignTextNonNeg(f) == IF FNeg(f) THEN <<"-">> ELSE <<"+">>

\* "+" if x > 0 else "-" if x < 0 else ""
SignText(f) == IF FPos(f) THEN <<"+">> ELSE IF FNeg(f) THEN <<"-">> ELSE <<>>

\* format_timestamp(): the clock's reading, one opaque piece of text
format_timestamp == <<"%a %b %d %H:%M:%S %Z %Y">>

\* render_quote: the text, and beside it the three numbers as they stand in
\* its last line.
render_quote(q) ==
    LET price == Format2f(q.price)
        change == SignText(q.change) \o Format2f(FAbs(q.change))
        percent == SignText(q.percent) \o Format2f(FAbs(q.percent))
    IN  [kind |-> "quote",
         text |-> format_timestamp \o <<"\n\n">> \o q.company \o <<"\n\n">>
                  \o price \o <<" ">> \o change \o <<" ", "(">> \o percent
                  \o <<"%", ")", "\n">>,
         price |-> price, change |-> change, percent |-> percent]

\* The page stock_app.py draws for a quote: st.success and three st.metric.
web_quote(q) ==
    [kind |-> "quote",
     text |-> <<"**">> \o q.company \o <<"**">>,
     price |-> <<"$">> \o Format2f(q.price),
     change |-> FormatPlus2f(q.change),
     percent |-> FormatPlus2f(q.percent) \o <<"%">>]

Message(kind, text) ==
    [kind |-> kind, text |-> text, price |-> <<>>, change |-> <<>>, percent |-> <<>>]

----------------------------------------------------------------------------
(* Inputs                                                                  *)

\* What a user types: nothing, blanks only, a symbol, a symbol in mixed case
\* with blanks around it.
Texts == {<<>>, <<" ">>, <<"a">>, <<" ", "a", "B", " ">>}

\* The lines standard input yields, each with its line end: an empty line,
\* a line of blanks, a symbol in mixed case with blanks around it.
Lines == {<<"\n">>, <<" ", "\n">>, <<" ", "a", "B", " ", "\n">>}

Inputs == UNION {[1..n -> Lines] : n \in 0..MaxLines}

\* Rows of a history frame, before the choice of its columns.
RowSet ==
    {[Close |-> NaN, Open |-> NaN],
     [Close |-> Num(10040), Open |-> NaN],
     [Close |-> Num(60), Open |-> Num(12405)],
     [Close |-> Num(0), Open |-> Num(0)],
     [Close |-> Num(10050), Open |-> Str],
     [Close |-> NaN, Open |-> Num(60)]}

ColumnSets == {{"Close", "Open"}, {"Close"}, {"Open"}}

RowsOver(columns) == {[c \in columns |-> r[c]] : r \in RowSet}

Frames(columns) == UNION {[1..n -> RowsOver(columns)] : n \in 0..MaxRows}

NoAnswer == [raises |-> FALSE, err |-> ""]

TickerAnswers == {NoAnswer, [raises |-> TRUE, err |-> "invalid ticker"]}

NoInfo == [raises |-> FALSE, err |-> "", longName |-> <<>>, shortName |-> <<>>]

InfoAnswers ==
    {[raises |-> TRUE, err |-> "HTTP 404", longName |-> <<>>, shortName |-> <<>>]}
    \cup {[raises |-> FALSE, err |-> "", longName |-> l, shortName |-> s] :
            l \in {<<>>, <<"L", "o", "n", "g">>}, s \in {<<>>, <<"S", "h">>}}

NoHist == [raises |-> FALSE, err |-> "", columns |-> {}, rows |-> <<>>]

HistAnswers ==
    {[raises |-> TRUE, err |-> "timed out", columns |-> {}, rows |-> <<>>]}
    \cup UNION {{[raises |-> FALSE, err |-> "", columns |-> cols, rows |-> rows] :
                   rows \in Frames(cols)} : cols \in ColumnSets}

\* An answer of each kind, for the requests that follow the first.
UsualInfo == [raises |-> FALSE, err |-> "", longName |-> <<"L", "o", "n", "g">>,
              shortName |-> <<"S", "h">>]

UsualHist == [raises |-> FALSE, err |-> "", columns |-> {"Close", "Open"},
              rows |-> <<[Close |-> Num(10040), Open |-> NaN],
                         [Close |-> Num(60), Open |-> Num(12405)]>>]

FewInfo == {UsualInfo} \cup {i \in InfoAnswers : i.raises}

FewHist == {UsualHist} \cup {h \in HistAnswers : h.raises \/ h.rows = <<>>}

\* The answers a call of fetch_quote can meet; an operation that is never
\* reached has no answer.  Any name answer meets a usual history answer and
\* any history answer a usual name answer.
Backends ==
    {[ticker |-> t, info |-> NoInfo, hist |-> NoHist] :
        t \in {t \in TickerAnswers : t.raises}}
    \cup {[ticker |-> NoAnswer, info |-> i, hist |-> h] :
            i \in InfoAnswers, h \in FewHist}
    \cup {[ticker |-> NoAnswer, info |-> i, hist |-> h] :
            i \in FewInfo, h \in HistAnswers}

FewBackends == {be \in Backends : be.info \in FewInfo \cup {NoInfo}
                                  /\ be.hist \in FewHist \cup {NoHist}}

NoBackend == [ticker |-> NoAnswer, info |-> NoInfo, hist |-> NoHist]

\* The answers drawn for a request: all of them for the first request of a
\* run, one of each kind for the later ones.
BackendsFor(symbol, first) ==
    IF Strip(symbol) = <<>> THEN {NoBackend}
    ELSE IF first THEN Backends ELSE FewBackends

Ties == [price : BOOLEAN, change : BOOLEAN, percent : BOOLEAN]

\* The symbols the programs pass to fetch_quote: the page passes the text as
\* typed, the loop passes the stripped line.
Arguments == (Texts \ {<<>>}) \cup {Strip(l) : l \in Lines}

\* What a call of fetch_quote can give, over the ways the ties can fall;
\* worked out once for every argument and answer.
FetchTable ==
    [x \in Arguments \X (Backends \cup {NoBackend}) |->
        {fetch_quote(x[1], x[2], fp) : fp \in Ties}]

Fetches(symbol, be) == FetchTable[<<symbol, be>>]

----------------------------------------------------------------------------
(* The programs                                                            *)

NoCall == [made |-> FALSE]
Call(arg, be, res) == [made |-> TRUE, arg |-> arg, be |-> be, res |-> res]

Nothing == Message("none", <<>>)

Init ==
    /\ prog \in {"cli", "web"}
    /\ pc = "start"
    /\ stdin \in IF prog = "cli" THEN Inputs ELSE {<<>>}
    /\ out = <<>>
    /\ shown = Nothing
    /\ call = NoCall

\* What the loop body prints for the result of fetch_quote.
cli_print(res) ==
    IF res.kind = "Quote" THEN render_quote(res.quote)
    ELSE IF res.kind = "QuoteError"
         THEN Message("error", <<"Error: ">> \o res.msg \o <<"\n", "\n">>)
         ELSE Message("unexpected", <<"Unexpected error: ">> \o res.msg \o <<"\n", "\n">>)

\* A variant of cli_next: a failed fetch leaves the loop.
cli_next_break(res) == IF res.kind = "Quote" THEN "loop" ELSE "done"

\* Where the loop body goes after the try statement: on to the next line.
cli_next(res) == "loop"

\* print("Enter a stock symbol:") before the loop
CliStart ==
    /\ prog = "cli" /\ pc = "start"
    /\ out' = <<"prompt">>
    /\ pc' = "loop"
    /\ UNCHANGED <<prog, stdin, shown, call>>

\* for line in sys.stdin: end of input
CliEndOfInput ==
    /\ prog = "cli" /\ pc = "loop"
    /\ stdin = <<>>
    /\ pc' = "done"
    /\ UNCHANGED <<prog, stdin, out, shown, call>>

\* a line that is empty once stripped: Goodbye! and break
CliGoodbye ==
    /\ prog = "cli" /\ pc = "loop"
    /\ stdin # <<>>
    /\ Strip(Head(stdin)) = <<>>
    /\ stdin' = Tail(stdin)
    /\ out' = Append(out, "goodbye")
    /\ shown' = Message("goodbye", <<"Goodbye!", "\n">>)
    /\ pc' = "done"
    /\ UNCHANGED <<prog, call>>

\* any other line: fetch, print the quote or the error, print the prompt
CliRequest ==
    /\ prog = "cli" /\ pc = "loop"
    /\ stdin # <<>>
    /\ LET symbol == Strip(Head(stdin)) IN
         /\ symbol # <<>>
         /\ \E be \in BackendsFor(symbol, ~call.made) :
              \E res \in Fetches(symbol, be) :
                /\ call' = Call(symbol, be, res)
                /\ shown' = cli_print(res)
                /\ out' = IF cli_next(res) = "loop"
                          THEN out \o <<shown'.kind, "prompt">>
                          ELSE Append(out, shown'.kind)
                /\ pc' = cli_next(res)
    /\ stdin' = Tail(stdin)
    /\ UNCHANGED prog

\* What the page shows for the result of fetch_quote.
web_show(res) ==
    IF res.kind = "Quote" THEN web_quote(res.quote)
    ELSE IF res.kind = "QuoteError"
         THEN Message("error", <<"(warning sign) ">> \o res.msg)
         ELSE Message("unexpected", <<"Unexpected error: ">> \o res.msg)

\* a run of the page's script with the text field empty (Streamlit runs the
\* script from its top once for every state of the field)
WebIdle ==
    /\ prog = "web" /\ pc = "start"
    /\ pc' = "done"
    /\ shown' = Message("info", <<"Enter a symbol above to get started.">>)
    /\ call' = NoCall
    /\ UNCHANGED <<prog, stdin, out>>

\* a run of the page's script with text in the field
WebRequest ==
    /\ prog = "web" /\ pc = "start"
    /\ \E symbol \in Texts \ {<<>>} :
         \E be \in BackendsFor(symbol, ~call.made) :
           \E res \in Fetches(symbol, be) :
             /\ call' = Call(symbol, be, res)
             /\ shown' = web_show(res)
    /\ pc' = "done"
    /\ UNCHANGED <<prog, stdin, out>>

CliStep == CliStart \/ CliEndOfInput \/ CliGoodbye \/ CliRequest

Next == CliStart \/ CliEndOfInput \/ CliGoodbye \/ CliRequest \/ WebIdle \/ WebRequest

Spec == Init /\ [][Next]_vars

----------------------------------------------------------------------------
(* Properties                                                              *)

\* The call of fetch_quote the state records, and what it met.
Res == call.res
Asked == call.made /\ Strip(call.arg) # <<>>
Symbol == Upper(Strip(call.arg))
Hist == call.be.hist
PricesUsed == get_prices_safe(Hist)
Numeric(x) == x.t = "num"
GotPrices == Asked /\ ~call.be.ticker.raises /\ PricesUsed.ok
GotNumbers == GotPrices /\ Numeric(PricesUsed.val.last_price)
                        /\ Numeric(PricesUsed.val.prev_close)
LastPrice == PricesUsed.val.last_price.v
PrevClose == PricesUsed.val.prev_close.v

\* The value of a rounded float, in hundredths.
Cents(f) == IF f.neg THEN -f.mag ELSE f.mag

\* c hundredths is a nearest hundredth of x (units of 1/10000).
Nearest(c, x) == Abs(100 * c - x) <= 50

Count(s, e) == Cardinality({i \in 1..Len(s) : s[i] = e})

ContainsText(s, e) ==
    \E i \in 1..(Len(s) - Len(e) + 1) : SubSeq(s, i, i + Len(e) - 1) = e

\* C1: a symbol that is empty or only blanks makes fetch_quote raise
\* QuoteError before any backend operation is performed.
C1_BlankSymbolRejected ==
    (call.made /\ Strip(call.arg) = <<>>)
        => (Res.kind = "QuoteError" /\ Res.calls = <<>>)

C1_Witness ==
    /\ call.made /\ call.arg = <<" ">>
    /\ shown.kind = "error"

\* C2 as stated: the change of a returned Quote is price - previous close
\* rounded to 2 decimals, price being the Quote's own rounded price.
C2_ChangeFromRoundedPrice ==
    (GotNumbers /\ Res.kind = "Quote")
        => Nearest(Cents(Res.quote.change), 100 * Cents(Res.quote.price) - PrevClose)

\* C2 as amended: the change of a returned Quote is last price - previous
\* close rounded to 2 decimals, the last price being the one the history
\* gave, before any rounding.
C2_ChangeFromLastPrice ==
    (GotNumbers /\ Res.kind = "Quote")
        => Nearest(Cents(Res.quote.change), LastPrice - PrevClose)

C2_Witness ==
    /\ GotNumbers /\ Res.kind = "Quote"
    /\ LastPrice = 10040 /\ PrevClose = 60
    /\ Cents(Res.quote.price) = 100
    /\ Cents(Res.quote.change) = 100

\* C3: an empty history (no row left once the empty rows are dropped) makes
\* fetch_quote raise QuoteError with the message "No valid price data
\* found." and nothing more.
C3_ExactMessage ==
    (Asked /\ ~call.be.ticker.raises /\ ~Hist.raises /\ dropna(Hist.rows) = <<>>)
        => (Res.kind = "QuoteError" /\ Res.msg = <<"No valid price data found.">>)

\* The failure of a backend step of the recorded call, if one failed: the
\* ticker construction, the history query, the extraction of a field or the
\* conversion of a cell.
StepFailure ==
    IF call.be.ticker.raises THEN [step |-> "Ticker", text |-> <<call.be.ticker.err>>]
    ELSE IF Hist.raises THEN [step |-> "history", text |-> <<Hist.err>>]
    ELSE IF ~prices_body(Hist).ok /\ prices_body(Hist).type \in {"KeyError", "ValueError"}
         THEN [step |-> "history", text |-> prices_body(Hist).msg]
         ELSE [step |-> "none", text |-> <<>>]

\* C4: a failing backend step surfaces as QuoteError and nothing else, the
\* message holds the text of the original failure, and the step was tried
\* once.
C4_BackendFailureWrapped ==
    (Asked /\ StepFailure.step # "none")
        => /\ Res.kind = "QuoteError"
           /\ ContainsText(Res.msg, StepFailure.text)
           /\ Count(Res.calls, StepFailure.step) = 1
           /\ Res.calls[Len(Res.calls)] = StepFailure.step

C4_Witness ==
    /\ Asked /\ StepFailure.step = "history"
    /\ prices_body(Hist).type = "ValueError"
    /\ Res.kind = "QuoteError"

\* C5: when the previous close used is 0, fetch_quote returns a Quote whose
\* percent is 0, whatever the last price.
C5_ZeroPreviousClose ==
    (GotPrices /\ PricesUsed.val.prev_close = Num(0))
        => /\ Res.kind = "Quote"
           /\ ~Res.quote.percent.nan
           /\ Res.quote.percent.mag = 0

C5_Witness ==
    /\ GotNumbers /\ PrevClose = 0 /\ LastPrice = 60
    /\ Res.kind = "Quote"
    /\ Res.quote.percent = FZero

\* C6: a name lookup that raises or gives neither name never fails the
\* fetch: the name is the uppercased symbol, the prices are resolved, and a
\* Quote is returned when the price data is valid.
C6_NameLookupNeverFails ==
    (Asked /\ ~call.be.ticker.raises
           /\ (call.be.info.raises
               \/ (call.be.info.longName = <<>> /\ call.be.info.shortName = <<>>)))
        => /\ Count(Res.calls, "history") = 1
           /\ PricesUsed.ok
                => /\ Res.kind = "Quote"
                   /\ Res.quote.company = Symbol \o <<" ", "(">> \o Symbol \o <<")">>
           /\ Res.kind # "Quote" => ~PricesUsed.ok

C6_Witness ==
    /\ Asked /\ call.be.info.raises
    /\ call.arg = <<" ", "a", "B", " ">>
    /\ Res.kind = "Quote"
    /\ Res.quote.company = <<"A", "B", " ", "(", "A", "B", ")">>

----------------------------------------------------------------------------
(* Reading back a printed number                                           *)

IsDigit(c) == \E i \in 0..9 : Digits[i + 1] = c
DigitValue(c) == CHOOSE i \in 0..9 : Digits[i + 1] = c

RECURSIVE NatOf(_)
NatOf(s) == IF s = <<>> THEN 0
            ELSE 10 * NatOf(SubSeq(s, 1, Len(s) - 1)) + DigitValue(s[Len(s)])

SignOf(t) == IF t # <<>> /\ Head(t) \in {"+", "-"} THEN Head(t) ELSE ""
Body(t) == IF SignOf(t) = "" THEN t ELSE Tail(t)

\* digits, a point, two digits
Fixed2Form(t) ==
    /\ Len(t) >= 4
    /\ t[Len(t) - 2] = "."
    /\ \A i \in (1..Len(t)) \ {Len(t) - 2} : IsDigit(t[i])

Fixed2Value(t) == 100 * NatOf(SubSeq(t, 1, Len(t) - 3))
                  + 10 * DigitValue(t[Len(t) - 1]) + DigitValue(t[Len(t)])

\* t shows the rounded value f: its sign character, then its magnitude with
\* 2 decimals; no sign character for a zero.
Shows(t, f) ==
    /\ Fixed2Form(Body(t))
    /\ Fixed2Value(Body(t)) = f.mag
    /\ SignOf(t) = IF f.mag = 0 THEN "" ELSE IF f.neg THEN "-" ELSE "+"

\* C8: render_quote prints the change and the percent as a sign and the
\* absolute value with 2 decimals, the sign being + above 0, - below 0 and
\* none at 0 (of the rounded value); a change of -1.2345 is printed -1.23.
C8_RenderSigns ==
    (prog = "cli" /\ shown.kind = "quote")
        => /\ ~Res.quote.change.nan => Shows(shown.change, Res.quote.change)
           /\ ~Res.quote.percent.nan => Shows(shown.percent, Res.quote.percent)
           /\ GotNumbers
                => /\ Nearest(Fixed2Value(Body(shown.change)), Abs(LastPrice - PrevClose))
                   /\ LastPrice - PrevClose = -12345
                        => shown.change = <<"-", "1", ".", "2", "3">>

C8_Witness ==
    /\ prog = "cli" /\ shown.kind = "quote"
    /\ GotNumbers /\ LastPrice - PrevClose = -12345
    /\ shown.change = <<"-", "1", ".", "2", "3">>
    /\ shown.percent = <<"-", "9", "9", ".", "5", "2">>

\* C9: the page shows the change and the percent of a Quote with the sign
\* character and the 2-decimal magnitude that render_quote prints for it.
C9_WebAsCli ==
    (prog = "web" /\ shown.kind = "quote"
       /\ ~Res.quote.change.nan /\ ~Res.quote.percent.nan)
        => /\ shown.change = render_quote(Res.quote).change
           /\ shown.percent = render_quote(Res.quote).percent \o <<"%">>

\* The rows of the recorded history answer that are not entirely empty.
KeptRows ==
    LET Kept(r) == ~(\A c \in Hist.columns : r[c] = NaN) IN SelectSeq(Hist.rows, Kept)

Convertible(x) == x.t # "str"

\* C10: of the rows left after the entirely empty ones are dropped, the last
\* price is the close of the latest; the previous close is the close of the
\* one before it when 2 or more are left and the open of the latest when 1
\* is left; with no row left or no Close field the fetch fails with
\* QuoteError.
C10_HistoryWindow ==
    (Asked /\ ~call.be.ticker.raises /\ ~Hist.raises)
        => LET n == Len(KeptRows) IN
           IF n = 0 \/ "Close" \notin Hist.columns
           THEN ~PricesUsed.ok /\ PricesUsed.type = "QuoteError" /\ Res.kind = "QuoteError"
           ELSE IF n >= 2
           THEN IF Convertible(KeptRows[n].Close) /\ Convertible(KeptRows[n - 1].Close)
                THEN /\ PricesUsed.ok
                     /\ PricesUsed.val.last_price = KeptRows[n].Close
                     /\ PricesUsed.val.prev_close = KeptRows[n - 1].Close
                ELSE ~PricesUsed.ok
           ELSE IF "Open" \in Hist.columns /\ Convertible(KeptRows[n].Close)
                    /\ Convertible(KeptRows[n].Open)
                THEN /\ PricesUsed.ok
                     /\ PricesUsed.val.last_price = KeptRows[n].Close
                     /\ PricesUsed.val.prev_close = KeptRows[n].Open
                ELSE ~PricesUsed.ok

C10_Witness ==
    /\ Asked /\ ~Hist.raises
    /\ Len(Hist.rows) = 3 /\ Len(KeptRows) = 2
    /\ Hist.rows[1] = [Close |-> Num(60), Open |-> Num(12405)]
    /\ Hist.rows[2] = [Close |-> NaN, Open |-> NaN]
    /\ Hist.rows[3] = [Close |-> Num(10040), Open |-> NaN]
    /\ PricesUsed.ok
    /\ PricesUsed.val.last_price = Num(10040)
    /\ PricesUsed.val.prev_close = Num(60)
    /\ Res.kind = "Quote"

----------------------------------------------------------------------------
(* The loop                                                                *)

\* What is left for the command line program to do: it has ended when this
\* is 0.
Remaining == Len(stdin) + (IF pc = "start" THEN 2 ELSE IF pc = "loop" THEN 1 ELSE 0)

C7_Step ==
    prog = "cli"
        => /\ Remaining' < Remaining
           /\ pc' = "done"
                => (pc = "loop" /\ (stdin = <<>> \/ Strip(Head(stdin)) = <<>>))
           /\ (pc = "loop" /\ stdin # <<>> /\ Strip(Head(stdin)) # <<>>)
                => /\ pc' = "loop"
                   /\ stdin' = Tail(stdin)
                   /\ out' = out \o <<shown'.kind, "prompt">>
                   /\ call'.res.kind # "Quote"
                        => /\ shown'.kind \in {"error", "unexpected"}
                           /\ ContainsText(shown'.text, call'.res.msg)

\* C7: a fetch that fails never ends the loop: the error is printed, then
\* the prompt, and the next line is read; the loop ends only at a line that
\* is empty once stripped or at the end of input; and it ends on a finite
\* input, for until it has ended a step can be taken and every step leaves
\* less to do.
C7_LoopGoesOn ==
    /\ [][C7_Step]_vars
    /\ []((prog = "cli" /\ pc # "done") => ENABLED CliStep)

C7_Witness ==
    /\ prog = "cli" /\ pc = "done"
    /\ Len(out) >= 4
    /\ out[2] = "error" /\ out[3] = "prompt"
    /\ stdin = <<>>

====
